---- MODULE Spec2Model ----
(***************************************************************************)
(* A model of wft's WhisperFineTuner builder (src/wft/finetuner.py) and of  *)
(* PushCallback (src/wft/callbacks.py).  One process holds one builder at a *)
(* time; the experiment directory and the hub repository outlive the     *)
(* builder.  The builder's methods are the actions; train and push_to_hub  *)
(* are split at the points where a SIGINT handler can interleave.          *)
(***************************************************************************)
EXTENDS Integers, Sequences, FiniteSets, TLC

VARIABLES
    org,               \* self.org
    baseline,          \* self.baseline
    feature_extractor, \* self.feature_extractor
    tokenizer,         \* self.tokenizer
    processor,         \* self.processor
    dataset,           \* self.dataset
    original_dataset,  \* self.original_dataset
    baseline_model,    \* self.baseline_model
    peft_model,        \* self.peft_model
    metric_primary,    \* self.metric_primary (its .name, or None)
    metric_secondary,  \* self.metric_secondary
    lora_config,       \* self.lora_config
    training_args,     \* self.training_args
    trainer,           \* self.trainer: Unset, or the index in trainers
    trainers,          \* the Seq2SeqTrainer objects built in this process
    sigint_handler,    \* 0: the default handler; k: signal_handler of trainers[k]
    handler_self,      \* the self of that signal_handler's closure
    stack,             \* the call stack of the main thread, innermost last
    err,               \* the exception that ended the last call, or None
    exited,            \* the process has called exit(0)
    world_zero,        \* state.is_world_process_zero of this process
    disk,              \* the experiment directory self.dir
    hub,               \* the hub repository
    outdir,            \* files in the merge_and_save output directory
    trace,             \* external effects of the current top-level call
    call,              \* the builder method the last step entered ("-": none)
    script,            \* how far the calls so far follow one of the test scripts
    ret,               \* what the call that just completed returned to the caller
    call_args,         \* the arguments of the method the last step entered
    sigints            \* SIGINTs delivered to this process

vars == <<org, baseline, feature_extractor, tokenizer, processor, dataset,
          original_dataset, baseline_model, peft_model, metric_primary,
          metric_secondary, lora_config, training_args, trainer, trainers,
          sigint_handler, handler_self, stack, err, exited, world_zero, disk, hub, outdir,
          trace, call, script, sigints, ret, call_args>>

builder == <<org, baseline, feature_extractor, tokenizer, processor, dataset,
             original_dataset, baseline_model, peft_model, metric_primary,
             metric_secondary, lora_config, training_args, trainer>>

None == "None"
\* An optional value of another type than a string: <<>> when absent, <<v>> when v.
Absent == <<>>
Some(v) == <<v>>
\* self.trainer before any assignment: the attribute does not exist.
Unset == <<>>

\* ------------------------------------------------------------------ bounds
MaxRuns == 2
MaxSigints == 1

\* ------------------------------------------------------- program constants
DefaultMaxSteps == 1000
DefaultEvalSteps == 1000
DefaultSaveSteps == 1000
DefaultWarmupSteps == 0

\* ------------------------------------------------------------------ inputs
Orgs == {None, "acme"}
ModelId == "m"
Baselines == {"whisper-tiny"}
Sources == {"librispeech"}
MetricTypes == {"wer", "cer"}

VE_dataset == "ValueError: Please prepare or load the dataset first."
VE_baseline == "ValueError: Please set the baseline first."
VE_train == "ValueError: Please train the model first."
VE_name == "ValueError: Please set the model name to push the model."
AttributeError == "AttributeError"
TypeError == "TypeError"
LibraryError == "LibraryError"
KeyboardInterrupt == "KeyboardInterrupt"

Min(a, b) == IF a <= b THEN a ELSE b

\* f"{org}/{id}"
HubModelId(o) == IF o # None THEN o \o "/" \o ModelId ELSE None

\* Seq2SeqTrainingArguments(...) of __init__
DefaultTrainingArgs(o) ==
    [max_steps |-> DefaultMaxSteps,
     eval_steps |-> DefaultEvalSteps,
     save_steps |-> DefaultSaveSteps,
     warmup_steps |-> DefaultWarmupSteps,
     num_train_epochs |-> 3,
     push_to_hub |-> IF o # None THEN TRUE ELSE FALSE,
     hub_model_id |-> HubModelId(o),
     metric_for_best_model |-> "loss",
     greater_is_better |-> FALSE]

\* LoraConfig(...) of __init__
DefaultLoraConfig == [name |-> "default", total_step |-> Absent, tinit |-> Absent]
LoraChoices == {[name |-> "NoArg", total_step |-> Absent, tinit |-> Absent],
                [name |-> "custom", total_step |-> Absent, tinit |-> Absent]}

\* Seq2SeqTrainingArguments objects a caller builds itself
UserArgs ==
    {[max_steps |-> 2, eval_steps |-> 2, save_steps |-> 1, warmup_steps |-> 0,
      num_train_epochs |-> 3, push_to_hub |-> TRUE, hub_model_id |-> None,
      metric_for_best_model |-> "loss", greater_is_better |-> TRUE]}

StepChoices == {[max_steps |-> 2, eval_steps |-> 2, save_steps |-> 1]}
EpochChoices == {3, 6}

\* The experiment directory: the global step of its last checkpoint-<n> folder (0:
\* none) with the log history saved in it, and whether it holds a README.md.
EmptyDisk == [exists |-> FALSE, ckpt |-> 0, ckpt_log |-> <<>>, readme |-> FALSE]
\* The hub repository <org>/<id>: a copy of the directory as last uploaded.
EmptyHub == [exists |-> FALSE, ckpt |-> 0, ckpt_log |-> <<>>]

\* A frame of the call stack: its position; the trainer local of a train frame or
\* of a signal_handler closure; the caller of a push_to_hub frame; the next
\* statement of a handler frame; the temp_storage of a push_to_hub frame and the
\* log history as it was when that call began; the resume argument of a train
\* frame, its resume local, and what the download did.
Frame(pc, tr, by) == [pc |-> pc, tr |-> tr, by |-> by, i |-> 1, temp |-> <<>>,
                      before |-> <<>>, req |-> FALSE, resume |-> FALSE,
                      dl |-> "none"]
Top == stack[Len(stack)]
Below == SubSeq(stack, 1, Len(stack) - 1)
SetTop(f) == [stack EXCEPT ![Len(stack)] = f]
Idle == stack = <<>> /\ ~exited

\* The self that signal_handler closes over (lines 375-383): the builder the caller
\* still holds, or, once the caller has replaced that builder by a new one, what
\* the replaced builder keeps in the fields the handler reads.
CurrentSelf == [live |-> TRUE, trainer |-> Unset, mp |-> None, ms |-> None]
DetachedSelf == [live |-> FALSE, trainer |-> trainer, mp |-> metric_primary,
                 ms |-> metric_secondary]
\* The self of the push_to_hub frame on top of the stack.
OfHandler == stack # <<>> /\ Top.by = "handler" /\ ~handler_self.live
PushTrainer == IF OfHandler THEN handler_self.trainer ELSE trainer
PushPrimary == IF OfHandler THEN handler_self.mp ELSE metric_primary
PushSecondary == IF OfHandler THEN handler_self.ms ELSE metric_secondary

\* ----------------------------------------------------------- test scripts
\* The calls of test_wft.py's chain, and of test_wft_resume.py's two train(n)
\* rounds made on one builder; "return" is train returning.
WftScript == <<"set_baseline", "prepare_dataset", "then:filter4", "set_metric:wer",
               "set_lora_config()", "train()", "return", "merge_and_save">>
ResumeScript == <<"epochs:3", "set_baseline", "prepare_dataset", "set_metric:wer",
                  "train(resume)", "return", "WhisperFineTuner",
                  "epochs:6", "set_baseline", "prepare_dataset", "set_metric:wer",
                  "train(resume)", "return">>

NoScript == [t |-> "none", pos |-> 0, first |-> 0]
StartScript == [t |-> "start", pos |-> 0, first |-> 0]

\* The script position after the caller's step `tok` ("fail": a step on which the
\* environment failed, which the tests do not expect).  `first` keeps the last
\* checkpoint of the directory when the first round's train returns.
Advance(tok) ==
    LET sc == IF script.t = "wft" THEN WftScript ELSE ResumeScript
    IN  IF script.t = "start" /\ org = None /\ tok = WftScript[1]
        THEN [t |-> "wft", pos |-> 1, first |-> 0]
        ELSE IF script.t = "start" /\ org = None /\ tok = ResumeScript[1]
                /\ disk = EmptyDisk
        THEN [t |-> "resume", pos |-> 1, first |-> 0]
        ELSE IF script.t \in {"wft", "resume"} /\ script.pos < Len(sc)
                /\ tok = sc[script.pos + 1]
        THEN [script EXCEPT !.pos = script.pos + 1,
                            !.first = IF script.t = "resume" /\ script.pos = 5
                                      THEN disk.ckpt ELSE script.first]
        ELSE NoScript

\* ------------------------------------------------------- caller bookkeeping
base == <<baseline, feature_extractor, tokenizer, processor, baseline_model>>
proc == <<trainers, sigint_handler, handler_self, exited, world_zero, sigints>>
store == <<disk, hub, outdir>>

\* The exceptions raised by the libraries and the hub, not by this code.
EnvErrors == {"LibraryError", "KeyboardInterrupt"}

\* The object the caller holds, and the absence of a returned value (the call
\* raised, has not returned yet, or its value is not kept).
Self == "self"
NoValue == "-"

\* `return v` of a method whose call is one step: reached unless it raised.
Returns(v) == ret' = IF err' = None THEN v ELSE NoValue

\* The caller enters builder method `name`; tok is the call as the scripts write it.
Called(name, tok) ==
    /\ call' = name
    /\ script' = Advance(IF err' \in EnvErrors THEN "fail" ELSE tok)

\* A step inside a call: no method is entered.
Inside == call' = "-" /\ ret' = NoValue /\ call_args' = <<>> /\ UNCHANGED script

\* An exception leaves every frame (nothing of the builder catches it).
Raise(e) ==
    /\ stack' = <<>>
    /\ err' = e
    /\ call' = "-"
    /\ ret' = NoValue
    /\ call_args' = <<>>
    /\ script' = IF e \in EnvErrors THEN NoScript ELSE script

\* ------------------------------------------------------------- __init__
\* WhisperFineTuner(id, org): the fields a fresh builder holds.  self.trainer is
\* not assigned by __init__.
NewBuilder(o) ==
    /\ org' = o
    /\ baseline' = None
    /\ feature_extractor' = None
    /\ tokenizer' = None
    /\ processor' = None
    /\ dataset' = None
    /\ original_dataset' = None
    /\ baseline_model' = None
    /\ peft_model' = None
    /\ metric_primary' = None
    /\ metric_secondary' = None
    /\ lora_config' = DefaultLoraConfig
    /\ training_args' = DefaultTrainingArgs(o)
    /\ trainer' = Unset

Start ==
    /\ org \in Orgs
    /\ baseline = None
    /\ feature_extractor = None
    /\ tokenizer = None
    /\ processor = None
    /\ dataset = None
    /\ original_dataset = None
    /\ baseline_model = None
    /\ peft_model = None
    /\ metric_primary = None
    /\ metric_secondary = None
    /\ lora_config = DefaultLoraConfig
    /\ training_args = DefaultTrainingArgs(org)
    /\ trainer = Unset
    /\ trainers = <<>>
    /\ sigint_handler = 0
    /\ handler_self = CurrentSelf
    /\ stack = <<>>
    /\ err = None
    /\ exited = FALSE
    /\ disk = EmptyDisk
    /\ hub = EmptyHub
    /\ outdir = {}
    /\ trace = <<>>
    /\ call = "__init__"
    /\ script = StartScript
    /\ ret = Self
    /\ call_args = <<>>
    /\ sigints = 0

\* The caller replaces a builder that has trained by a fresh one with the same id
\* and org, as the train(n) helper of the resume test does.  The directory, the
\* hub and the process (its SIGINT handler) stay as they are.
WhisperFineTuner ==
    /\ Idle
    /\ trainer # Unset
    /\ NewBuilder(org)
    /\ err' = None
    /\ trace' = <<>>
    /\ Returns(Self)
    /\ call_args' = <<>>
    /\ Called("__init__", "WhisperFineTuner")
    /\ handler_self' = IF sigint_handler # 0 /\ handler_self.live
                       THEN DetachedSelf ELSE handler_self
    /\ UNCHANGED <<trainers, sigint_handler, exited, world_zero, sigints>>
    /\ UNCHANGED <<store, stack>>

\* shutil.rmtree(ft.dir, ignore_errors=True) of the resume test
RmTree ==
    /\ Idle
    /\ disk # EmptyDisk
    /\ disk' = EmptyDisk
    /\ call' = "-"
    /\ ret' = NoValue
    /\ call_args' = <<>>
    /\ script' = NoScript
    /\ UNCHANGED <<builder, proc, stack, err, hub, outdir, trace>>

\* ------------------------------------------------------------ set_baseline
\* fail = k: the k-th from_pretrained call raises (0: none does).
set_baseline(b, fail) ==
    /\ Idle
    /\ baseline' = b
    /\ feature_extractor' = IF fail = 1 THEN feature_extractor ELSE b
    /\ tokenizer' = IF fail \in {1, 2} THEN tokenizer ELSE b
    /\ processor' = IF fail \in {1, 2, 3} THEN processor ELSE b
    /\ baseline_model' = IF fail \in {1, 2, 3, 4} THEN baseline_model ELSE b
    /\ err' = IF fail = 0 THEN None ELSE LibraryError
    /\ trace' = <<"from_pretrained">>
    /\ Returns(Self)
    /\ call_args' = <<>>
    /\ Called("set_baseline", "set_baseline")
    /\ UNCHANGED <<org, dataset, original_dataset, peft_model, metric_primary,
                   metric_secondary, lora_config, training_args, trainer>>
    /\ UNCHANGED <<proc, store, stack>>

\* --------------------------------------------------------- prepare_dataset
\* Variant: prepare_dataset without the check of line 161.
BaselineMissing_off == FALSE

\* Variant: line 161 testing the feature extractor only.
BaselineMissing_m == feature_extractor = None

\* line 161
BaselineMissing == feature_extractor = None \/ tokenizer = None

\* A split string is a sequence of characters: "+" joins split names, every
\* other character ("v": a letter of a name, ":": slice syntax) is opaque here.
Chars == {"v", ":", "+"}
MaxSplitLen == 3
SplitStrings == UNION {[1..n -> Chars] : n \in 0..MaxSplitLen}

\* The splits of the tests, "validation[:10]" and the like.
TestSplit == <<"v", ":">>

\* The string a sequence of characters spells.
RECURSIVE Str(_)
Str(s) == IF s = <<>> THEN "" ELSE Head(s) \o Str(Tail(s))

\* "+" in split
HasPlus(split) == \E i \in DOMAIN split : split[i] = "+"

\* split.split("+")
RECURSIVE SplitPlus(_)
SplitPlus(split) ==
    IF ~HasPlus(split) THEN <<split>>
    ELSE LET i == CHOOSE j \in DOMAIN split :
                     split[j] = "+" /\ \A k \in 1..(j - 1) : split[k] # "+"
         IN  <<SubSeq(split, 1, i - 1)>> \o SplitPlus(SubSeq(split, i + 1, Len(split)))

StreamingLoad(name) == "load_dataset(streaming=True):" \o Str(name)
PlainLoad(name) == "load_dataset:" \o Str(name)

\* Variant: load_streaming_dataset without its "+" branch.
LoadStreamingDataset_m(split) == <<StreamingLoad(split)>>

\* prepare_dataset.py lines 5-26: the calls load_streaming_dataset makes.
LoadStreamingDataset(split) ==
    IF HasPlus(split)
    THEN LET names == SplitPlus(split)
         IN  [n \in 1..Len(names) |-> StreamingLoad(names[n])]
                \o <<"interleave_datasets">>
    ELSE <<StreamingLoad(split)>>

\* prepare_dataset.py lines 40-51: the loads of the module-level prepare_dataset.
PrepareLoads(train_split, test_split) ==
    LoadStreamingDataset(train_split) \o <<PlainLoad(test_split)>>

\* ok: whether the dataset source delivers; if not, its first load raises.
prepare_dataset(src, train_split, test_split, ok) ==
    /\ Idle
    /\ IF BaselineMissing
       THEN /\ err' = VE_baseline
            /\ trace' = <<>>
            /\ UNCHANGED <<dataset, original_dataset>>
       ELSE IF ok
       THEN /\ dataset' = src
            /\ original_dataset' = src
            /\ err' = None
            /\ trace' = PrepareLoads(train_split, test_split)
       ELSE /\ err' = LibraryError
            /\ trace' = <<Head(PrepareLoads(train_split, test_split))>>
            /\ UNCHANGED <<dataset, original_dataset>>
    /\ Returns(Self)
    /\ call_args' = <<train_split, test_split>>
    /\ Called("prepare_dataset", "prepare_dataset")
    /\ UNCHANGED <<org, base, peft_model, metric_primary, metric_secondary,
                   lora_config, training_args, trainer>>
    /\ UNCHANGED <<proc, store, stack>>

\* ---------------------------------------------------------- set_lora_config
\* lora_config is a required parameter: a call without it raises TypeError.
set_lora_config(cfg) ==
    /\ Idle
    /\ IF cfg.name = "NoArg"
       THEN err' = TypeError /\ UNCHANGED lora_config
       ELSE err' = None /\ lora_config' = cfg
    /\ trace' = <<>>
    /\ Returns(Self)
    /\ call_args' = <<>>
    /\ Called("set_lora_config",
              IF cfg.name = "NoArg" THEN "set_lora_config()" ELSE "set_lora_config")
    /\ UNCHANGED <<org, base, dataset, original_dataset, peft_model,
                   metric_primary, metric_secondary, training_args, trainer>>
    /\ UNCHANGED <<proc, store, stack>>

\* --------------------------------------------------------------- set_metric
\* "cer" if metric_type == "wer" else "wer"
\* Variant: line 204 loading "cer" whatever the metric type.
SecondaryOf_m(m) == "cer"

SecondaryOf(m) == IF m = "wer" THEN "cer" ELSE "wer"

\* fail = k: the k-th evaluate.load raises (0: none does).
set_metric(m, fail) ==
    /\ Idle
    /\ metric_primary' = IF fail = 1 THEN metric_primary ELSE m
    /\ metric_secondary' = IF fail \in {1, 2} THEN metric_secondary ELSE SecondaryOf(m)
    /\ err' = IF fail = 0 THEN None ELSE LibraryError
    /\ trace' = <<"evaluate.load">>
    /\ Returns(Self)
    /\ call_args' = <<m>>
    /\ Called("set_metric", "set_metric:" \o m)
    /\ UNCHANGED <<org, base, dataset, original_dataset, peft_model, lora_config,
                   training_args, trainer>>
    /\ UNCHANGED <<proc, store, stack>>

\* -------------------------------------------------------- set_training_args
set_training_args(a) ==
    /\ Idle
    /\ training_args' = a
    /\ err' = None
    /\ trace' = <<>>
    /\ Returns(Self)
    /\ call_args' = <<>>
    /\ Called("set_training_args", "set_training_args")
    /\ UNCHANGED <<org, base, dataset, original_dataset, peft_model,
                   metric_primary, metric_secondary, lora_config, trainer>>
    /\ UNCHANGED <<proc, store, stack>>

\* ---------------------------------------------------------------- set_steps
set_steps(s) ==
    /\ Idle
    /\ training_args' = [training_args EXCEPT !.max_steps = s.max_steps,
                                              !.eval_steps = s.eval_steps,
                                              !.save_steps = s.save_steps]
    /\ err' = None
    /\ trace' = <<>>
    /\ Returns(Self)
    /\ call_args' = <<>>
    /\ Called("set_steps", "set_steps")
    /\ UNCHANGED <<org, base, dataset, original_dataset, peft_model,
                   metric_primary, metric_secondary, lora_config, trainer>>
    /\ UNCHANGED <<proc, store, stack>>

\* ft.training_args.num_train_epochs = n, as the tests write it
set_num_train_epochs(n) ==
    /\ Idle
    /\ training_args' = [training_args EXCEPT !.num_train_epochs = n]
    /\ call' = "-"
    /\ ret' = NoValue
    /\ call_args' = <<>>
    /\ script' = Advance(IF n = 3 THEN "epochs:3" ELSE "epochs:6")
    /\ UNCHANGED <<org, base, dataset, original_dataset, peft_model,
                   metric_primary, metric_secondary, lora_config, trainer>>
    /\ UNCHANGED <<proc, store, stack, err, trace>>

\* --------------------------------------------------------------------- then
Select4(d) == IF d \in Sources THEN d \o "[:4]" ELSE d

\* filter4 of the tests: ft.dataset["train"] = ft.dataset["train"].select(range(4))
filter4 ==
    IF dataset = None
    THEN err' = TypeError /\ UNCHANGED dataset
    ELSE err' = None /\ dataset' = Select4(dataset)

\* filter4 has no return statement: the call's value is None.
filter4Result == None

\* Variant: then returning what func returned.
ThenResult_m(r) == r

\* lines 527-528: func's result r is dropped, self is returned.
ThenResult(r) == Self

then(func) ==
    /\ Idle
    /\ func = "filter4"
    /\ filter4
    /\ trace' = <<"func">>
    /\ Returns(ThenResult(filter4Result))
    /\ call_args' = <<>>
    /\ Called("then", "then:" \o func)
    /\ UNCHANGED <<org, base, original_dataset, peft_model, metric_primary,
                   metric_secondary, lora_config, training_args, trainer>>
    /\ UNCHANGED <<proc, store, stack>>

\* ------------------------------------------------------------ log history
\* A log entry is a dict: a function from its keys to values.
Get(log, k) == IF k \in DOMAIN log THEN log[k] ELSE None
Pop(log, k) == [j \in DOMAIN log \ {k} |-> log[j]]
Put(log, k, v) == [j \in DOMAIN log \cup {k} |-> IF j = k THEN v ELSE log[j]]

\* f"{metric.name}_runtime"
RuntimeKey(name) == name \o "_runtime"

\* The dict compute_metrics returns.
ComputeMetricsResult(mp, ms) ==
    [k \in {mp, ms, "pred", "decode_runtime", RuntimeKey(mp), RuntimeKey(ms)} |->
        IF k = "pred" THEN "table" ELSE "number"]

\* The trainer logs an evaluation's metrics under their names prefixed by "eval_"
\* (the key push_to_hub pops is "eval_pred").
EvalLog(mp, ms) ==
    LET d == ComputeMetricsResult(mp, ms)
    IN  [k \in {"eval_" \o j : j \in DOMAIN d} |->
            d[CHOOSE j \in DOMAIN d : "eval_" \o j = k]]

\* The entries the trainer logs itself: per logging step, and at the end.
LossLog == [k \in {"loss", "learning_rate"} |-> "number"]
SummaryLog == [k \in {"train_runtime", "train_loss"} |-> "number"]

\* The keys push_to_hub removes from every log entry, in the order of the code.
PoppedKeys == <<"eval_pred", "decode_runtime", RuntimeKey(PushPrimary),
                RuntimeKey(PushSecondary)>>

\* The loop of lines 405-413 on one entry: the values popped, each popped key
\* being gone when the next pop runs.
RECURSIVE PoppedValues(_, _)
PoppedValues(log, keys) ==
    IF keys = <<>> THEN <<>>
    ELSE <<Get(log, Head(keys))>> \o PoppedValues(Pop(log, Head(keys)), Tail(keys))

RECURSIVE PopAll(_, _)
PopAll(log, keys) ==
    IF keys = <<>> THEN log
    ELSE PopAll(IF Head(keys) \in DOMAIN log THEN Pop(log, Head(keys)) ELSE log,
                Tail(keys))

\* The loop of lines 430-440 on one entry.
RECURSIVE Restored(_, _, _)
Restored(log, keys, vals) ==
    IF keys = <<>> THEN log
    ELSE Restored(Put(log, Head(keys), Head(vals)), Tail(keys), Tail(vals))

\* lines 430-436: zip stops at the shorter of the log history and temp_storage.
RestoredHistory(logs, temp) ==
    [m \in DOMAIN logs |->
        IF m <= Min(Len(logs), Len(temp))
        THEN Restored(logs[m], PoppedKeys, temp[m])
        ELSE logs[m]]

TrainerObj == trainers[PushTrainer[1]]
TrainerNone == <<0>>

\* ------------------------------------------------------------- push_to_hub
\* Variant: line 397 without its test.
PushGuard_m == TRUE

\* line 397
PushGuard == org # None

\* lines 394-413: the checks, and the removal of the large entries.
PushEnter ==
    /\ stack # <<>> /\ ~exited
    /\ Top.pc = "p_enter"
    /\ IF PushTrainer = Unset
       THEN Raise(AttributeError) /\ UNCHANGED <<trainers>>
       ELSE IF PushTrainer = TrainerNone
       THEN Raise(VE_train) /\ UNCHANGED <<trainers>>
       ELSE IF ~PushGuard
       THEN stack' = Below /\ Inside /\ UNCHANGED <<trainers, err>>
       ELSE IF PushPrimary = None \/ PushSecondary = None
       THEN Raise(AttributeError) /\ UNCHANGED <<trainers>>
       ELSE LET logs == TrainerObj.log_history
            IN  /\ stack' = SetTop([Top EXCEPT !.pc = "p_upload", !.before = logs,
                        !.temp = [n \in DOMAIN logs |-> PoppedValues(logs[n], PoppedKeys)]])
                /\ trainers' = [trainers EXCEPT ![PushTrainer[1]].log_history =
                        [n \in DOMAIN logs |-> PopAll(logs[n], PoppedKeys)]]
                /\ Inside
                /\ UNCHANGED err
    /\ UNCHANGED <<builder, store, trace>>
    /\ UNCHANGED <<sigint_handler, handler_self, exited, world_zero, sigints>>

\* lines 415-427: self.trainer.push_to_hub(...) uploads the output directory and
\* the model card it writes there; ok: whether the hub accepts the upload.
PushUpload(ok) ==
    /\ stack # <<>> /\ ~exited
    /\ Top.pc = "p_upload"
    /\ IF ok
       THEN /\ hub' = [exists |-> TRUE, ckpt |-> disk.ckpt, ckpt_log |-> disk.ckpt_log]
            /\ disk' = [disk EXCEPT !.exists = TRUE, !.readme = TRUE]
            /\ trace' = Append(trace, "upload:" \o Top.by)
            /\ stack' = SetTop([Top EXCEPT !.pc = "p_restore"])
            /\ Inside
            /\ UNCHANGED err
       ELSE /\ Raise(LibraryError)
            /\ UNCHANGED <<hub, disk, trace>>
    /\ UNCHANGED <<builder, proc, outdir>>

\* lines 430-440
PushRestore ==
    /\ stack # <<>> /\ ~exited
    /\ Top.pc = "p_restore"
    /\ trainers' = [trainers EXCEPT ![PushTrainer[1]].log_history =
                       RestoredHistory(TrainerObj.log_history, Top.temp)]
    /\ stack' = Below
    /\ Inside
    /\ UNCHANGED <<builder, store, err, trace>>
    /\ UNCHANGED <<sigint_handler, handler_self, exited, world_zero, sigints>>

\* The caller calls ft.push_to_hub() itself.
push_to_hub ==
    /\ Idle
    /\ stack' = <<Frame("p_enter", 0, "caller")>>
    /\ err' = None
    /\ trace' = <<>>
    /\ ret' = NoValue
    /\ call_args' = <<>>
    /\ Called("push_to_hub", "push_to_hub")
    /\ UNCHANGED <<builder, proc, store>>

\* -------------------------------------------------------------------- train
\* Variant: lines 252-255 without the check of line 256.
TrainPrecondition_m ==
    IF dataset = None THEN VE_dataset
    ELSE IF feature_extractor = None \/ tokenizer = None THEN VE_baseline
    ELSE None

\* lines 252-257: the error the precondition checks raise, or None.
TrainPrecondition ==
    IF dataset = None THEN VE_dataset
    ELSE IF feature_extractor = None \/ tokenizer = None THEN VE_baseline
    ELSE IF baseline_model = None THEN VE_baseline
    ELSE None

\* lines 259-261: the training arguments train goes on with (args: Absent or Some).
TrainArgs(args) ==
    [(IF args # Absent THEN args[1] ELSE training_args) EXCEPT !.num_train_epochs = 0]

\* lines 328-329
BestModelArgs(a) ==
    [a EXCEPT !.metric_for_best_model = metric_primary, !.greater_is_better = FALSE]

\* hf.snapshot_download(hub_model_id, local_dir=self.dir): dl is what the hub does
\* ("ok": the snapshot arrives; "raise": nothing is written; "partial": files are
\* written and the call raises).  Without a repository name, or without the
\* repository, the call raises.
Download(a, dl) ==
    IF a.hub_model_id = None \/ ~hub.exists \/ dl = "raise"
    THEN [raised |-> TRUE, disk |-> disk]
    ELSE [raised |-> dl = "partial",
          disk |-> [exists |-> TRUE, ckpt |-> hub.ckpt, ckpt_log |-> hub.ckpt_log,
                    readme |-> TRUE]]

\* Variant: lines 334-345 without the get_last_checkpoint test of line 341.
ResumeBlock_m(a, resume, dl) ==
    IF ~resume
    THEN [resume |-> FALSE, disk |-> disk, dl |-> "none", events |-> <<>>]
    ELSE LET need == org # None /\ ~disk.exists
             d == IF need THEN Download(a, dl) ELSE [raised |-> FALSE, disk |-> disk]
             did == IF need THEN <<"snapshot_download">> ELSE <<>>
         IN  IF d.raised
             THEN [resume |-> FALSE, disk |-> d.disk, dl |-> "raised",
                   events |-> did \o <<"print:Failed to resume">>]
             ELSE [resume |-> TRUE, disk |-> d.disk,
                   dl |-> IF need THEN "ok" ELSE "none",
                   events |-> did \o <<"get_last_checkpoint">>]

\* lines 334-345: the resume local after the block, the directory after the
\* optional download, and what was done on the way.
ResumeBlock(a, resume, dl) ==
    IF ~resume
    THEN [resume |-> FALSE, disk |-> disk, dl |-> "none", events |-> <<>>]
    ELSE LET need == org # None /\ ~disk.exists
             d == IF need THEN Download(a, dl) ELSE [raised |-> FALSE, disk |-> disk]
             did == IF need THEN <<"snapshot_download">> ELSE <<>>
         IN  IF d.raised
             THEN [resume |-> FALSE, disk |-> d.disk, dl |-> "raised",
                   events |-> did \o <<"print:Failed to resume">>]
             ELSE IF d.disk.ckpt = 0
             THEN [resume |-> FALSE, disk |-> d.disk,
                   dl |-> IF need THEN "ok" ELSE "none",
                   events |-> did \o <<"get_last_checkpoint", "print:Failed to resume">>]
             ELSE [resume |-> TRUE, disk |-> d.disk,
                   dl |-> IF need THEN "ok" ELSE "none",
                   events |-> did \o <<"get_last_checkpoint">>]

\* Seq2SeqTrainer(...)
NewTrainer == [global_step |-> 0, log_history |-> <<>>]

\* lines 252-373: train up to the construction of the trainer and its callbacks.
train(args, resume, dl) ==
    /\ Idle
    /\ IF TrainPrecondition # None
       THEN /\ err' = TrainPrecondition
            /\ trace' = <<>>
            /\ UNCHANGED <<training_args, lora_config, peft_model, trainer,
                           trainers, stack, disk>>
       ELSE IF metric_primary = None
       THEN /\ training_args' = TrainArgs(args)
            /\ err' = AttributeError
            /\ trace' = <<>>
            /\ UNCHANGED <<lora_config, peft_model, trainer, trainers, stack, disk>>
       ELSE LET a == BestModelArgs(TrainArgs(args))
                r == ResumeBlock(a, resume, dl)
                k == Len(trainers) + 1
            IN  /\ Len(trainers) < MaxRuns
                /\ training_args' = a
                /\ lora_config' = [lora_config EXCEPT
                                      !.total_step = Some(a.max_steps),
                                      !.tinit = Some(a.warmup_steps)]
                /\ disk' = r.disk
                /\ peft_model' = "peft"
                /\ trainers' = Append(trainers, NewTrainer)
                /\ trainer' = Some(k)
                /\ stack' = <<[Frame("t_install", k, "caller") EXCEPT
                                  !.req = resume, !.resume = r.resume, !.dl = r.dl]>>
                /\ err' = None
                /\ trace' = r.events
    /\ ret' = NoValue
    /\ call_args' = <<args, resume>>
    /\ Called("train", IF args # Absent THEN "train(args)"
                       ELSE IF resume THEN "train(resume)" ELSE "train()")
    /\ UNCHANGED <<org, base, dataset, original_dataset, metric_primary,
                   metric_secondary>>
    /\ UNCHANGED <<sigint_handler, handler_self, exited, world_zero, sigints, hub, outdir>>

\* line 385: signal.signal(signal.SIGINT, signal_handler).  The trainers of
\* earlier train calls are referenced by nothing from here on.
\* Variant: a handler already installed is kept.
NewHandler_m(old, k) == IF old # 0 THEN old ELSE k

\* line 385, signal.signal(signal.SIGINT, signal_handler): the handler bound to
\* this call's trainer replaces whatever was installed.
NewHandler(old, k) == k

TrainInstall ==
    /\ stack # <<>> /\ ~exited
    /\ Top.pc = "t_install"
    /\ sigint_handler' = NewHandler(sigint_handler, Top.tr)
    /\ handler_self' = CurrentSelf
    /\ trainers' = [k \in DOMAIN trainers |->
                       IF k = Top.tr THEN trainers[k] ELSE NewTrainer]
    /\ stack' = SetTop([Top EXCEPT !.pc = "t_start"])
    /\ Inside
    /\ UNCHANGED <<builder, store, err, trace>>
    /\ UNCHANGED <<exited, world_zero, sigints>>

\* line 386, trainer.train(resume_from_checkpoint=resume): a resumed trainer
\* starts from the state saved in the last checkpoint of the directory.
TrainStart ==
    /\ stack # <<>> /\ ~exited
    /\ Top.pc = "t_start"
    /\ trainers' = IF Top.resume
                   THEN [trainers EXCEPT ![Top.tr].global_step = disk.ckpt,
                                         ![Top.tr].log_history = disk.ckpt_log]
                   ELSE trainers
    /\ trace' = Append(trace, IF Top.resume THEN "trainer.train(resume_from_checkpoint=True)"
                              ELSE "trainer.train(resume_from_checkpoint=False)")
    /\ stack' = SetTop([Top EXCEPT !.pc = "t_loop"])
    /\ Inside
    /\ UNCHANGED <<builder, store, err>>
    /\ UNCHANGED <<sigint_handler, handler_self, exited, world_zero, sigints>>

\* The next global step at which the trainer evaluates, saves or stops; the
\* optimizer steps between two such points are taken at once.
NextEvent(g, a) ==
    Min(a.max_steps,
        Min(((g \div a.eval_steps) + 1) * a.eval_steps,
            ((g \div a.save_steps) + 1) * a.save_steps))

\* PushCallback.on_save
OnSavePushes == world_zero /\ training_args.push_to_hub

\* line 386: the training loop up to its next event.  With max_steps > 0 the
\* trainer runs until global_step reaches max_steps, whatever num_train_epochs.
TrainLoop ==
    /\ stack # <<>> /\ ~exited
    /\ Top.pc = "t_loop"
    /\ LET t == trainers[Top.tr]
           a == training_args
           s == NextEvent(t.global_step, a)
           ev == s % a.eval_steps = 0
           sv == s % a.save_steps = 0
           log1 == Append(t.log_history, LossLog)
           log2 == IF ev THEN Append(log1, EvalLog(metric_primary, metric_secondary))
                   ELSE log1
       IN  IF t.global_step >= a.max_steps
           THEN /\ trainers' = [trainers EXCEPT ![Top.tr].log_history =
                                   Append(t.log_history, SummaryLog)]
                /\ stack' = SetTop([Top EXCEPT !.pc = "t_save"])
                /\ Inside
                /\ UNCHANGED <<disk, trace, err>>
           ELSE IF ev /\ metric_secondary = None
           THEN /\ trainers' = [trainers EXCEPT ![Top.tr].global_step = s,
                                                ![Top.tr].log_history = log1]
                /\ Raise(AttributeError)
                /\ UNCHANGED <<disk, trace>>
           ELSE /\ trainers' = [trainers EXCEPT ![Top.tr].global_step = s,
                                                ![Top.tr].log_history = log2]
                /\ disk' = IF sv THEN [disk EXCEPT !.exists = TRUE, !.ckpt = s,
                                                   !.ckpt_log = log2]
                           ELSE disk
                /\ trace' = IF sv THEN Append(trace, "checkpoint") ELSE trace
                /\ stack' = IF sv /\ OnSavePushes
                            THEN Append(stack, Frame("p_enter", 0, "on_save"))
                            ELSE stack
                /\ Inside
                /\ UNCHANGED err
    /\ UNCHANGED <<builder, hub, outdir>>
    /\ UNCHANGED <<sigint_handler, handler_self, exited, world_zero, sigints>>

\* trainer.save_model(): the adapter and its model card go to the directory.
SaveModel == [disk EXCEPT !.exists = TRUE, !.readme = TRUE]

\* line 387
TrainSave ==
    /\ stack # <<>> /\ ~exited
    /\ Top.pc = "t_save"
    /\ disk' = SaveModel
    /\ trace' = Append(trace, "save:train")
    /\ stack' = SetTop([Top EXCEPT !.pc = "t_push"])
    /\ Inside
    /\ UNCHANGED <<builder, proc, hub, outdir, err>>

\* line 389
TrainPush ==
    /\ stack # <<>> /\ ~exited
    /\ Top.pc = "t_push"
    /\ stack' = Append(SetTop([Top EXCEPT !.pc = "t_ret"]), Frame("p_enter", 0, "train"))
    /\ Inside
    /\ UNCHANGED <<builder, proc, store, err, trace>>

\* line 391
TrainReturn ==
    /\ stack # <<>> /\ ~exited
    /\ Top.pc = "t_ret"
    /\ stack' = Below
    /\ call' = "-"
    /\ ret' = Self
    /\ call_args' = <<>>
    /\ script' = IF script.t = "none" THEN script ELSE Advance("return")
    /\ trace' = Append(trace, "return")
    /\ UNCHANGED <<builder, proc, store, err>>

\* ----------------------------------------------------------- signal_handler
\* Variant: signal_handler uploading before it saves.
HandlerOrder_m == <<"push_to_hub", "save_model", "exit">>

\* lines 377-383: the statements of signal_handler, in order.
HandlerOrder == <<"save_model", "push_to_hub", "exit">>

\* line 379
HandlerPushes == org # None

\* A SIGINT reaches the process: the installed handler runs on top of whatever
\* the main thread is doing; the default handler raises KeyboardInterrupt.
Sigint ==
    /\ ~exited
    /\ sigints < MaxSigints
    /\ sigints' = sigints + 1
    /\ IF sigint_handler = 0
       THEN Raise(KeyboardInterrupt)
       ELSE /\ stack' = Append(stack, Frame("handler", sigint_handler, "handler"))
            /\ call' = "-"
            /\ ret' = NoValue
            /\ call_args' = <<>>
            /\ script' = NoScript
            /\ UNCHANGED err
    /\ UNCHANGED <<builder, store, trace>>
    /\ UNCHANGED <<trainers, sigint_handler, handler_self, exited, world_zero>>

\* One statement of signal_handler; trainer is the local of the train call that
\* installed the handler, self.push_to_hub() uses the trainer that the self of
\* the closure holds when the handler runs.
HandlerStep ==
    /\ stack # <<>> /\ ~exited
    /\ Top.pc = "handler"
    /\ LET op == HandlerOrder[Top.i]
           next == SetTop([Top EXCEPT !.i = Top.i + 1])
       IN  IF op = "save_model"
           THEN /\ disk' = SaveModel
                /\ trace' = Append(trace, "save:handler")
                /\ stack' = next
                /\ UNCHANGED exited
           ELSE IF op = "push_to_hub"
           THEN /\ stack' = IF HandlerPushes
                            THEN Append(next, Frame("p_enter", 0, "handler"))
                            ELSE next
                /\ UNCHANGED <<disk, trace, exited>>
           ELSE /\ exited' = TRUE
                /\ trace' = Append(trace, "exit")
                /\ stack' = <<>>
                /\ UNCHANGED disk
    /\ Inside
    /\ UNCHANGED <<builder, hub, outdir, err>>
    /\ UNCHANGED <<trainers, sigint_handler, handler_self, world_zero, sigints>>

\* ------------------------------------------------------------------- merge
\* merge_and_save(outdir): the files save_pretrained writes for the merged model,
\* the processor and the tokenizer.
SavedFiles == {"model.safetensors", "config.json", "preprocessor_config.json",
               "tokenizer_config.json"}

merge_and_save ==
    /\ Idle
    /\ IF peft_model = None
       THEN err' = AttributeError /\ trace' = <<>> /\ UNCHANGED outdir
       ELSE err' = None /\ trace' = <<"save_pretrained">> /\ outdir' = SavedFiles
    /\ Returns(Self)
    /\ call_args' = <<>>
    /\ Called("merge_and_save", "merge_and_save")
    /\ UNCHANGED <<builder, proc, stack, disk, hub>>

\* Variant: lines 495-498 without the check of line 496.
MergedName_m(dest) ==
    IF dest # Absent THEN dest[1] ELSE training_args.hub_model_id \o "-merged"

\* lines 495-498: the destination repository, or None when there is no name.
MergedName(dest) ==
    IF dest # Absent THEN dest[1]
    ELSE IF training_args.hub_model_id = None THEN None
    ELSE training_args.hub_model_id \o "-merged"

\* lines 500-503: the merge and the three uploads of the merged model, in order.
MergedUploads(name) ==
    <<"merge_and_unload", "model.push_to_hub:" \o name,
      "processor.push_to_hub:" \o name, "tokenizer.push_to_hub:" \o name>>

\* lines 495-515.  The adapter's model card is read from the experiment
\* directory after the three uploads, and uploaded with its library name changed.
merge_and_push(dest) ==
    /\ Idle
    /\ IF MergedName(dest) = None
       THEN err' = VE_name /\ trace' = <<>>
       ELSE IF peft_model = None
       THEN err' = AttributeError /\ trace' = <<>>
       ELSE IF disk.readme
       THEN /\ err' = None
            /\ trace' = MergedUploads(MergedName(dest))
                           \o <<"upload_file:" \o MergedName(dest)>>
       ELSE /\ err' = "FileNotFoundError"
            /\ trace' = MergedUploads(MergedName(dest))
    /\ Returns(Self)
    /\ call_args' = <<dest>>
    /\ Called("merge_and_push", "merge_and_push")
    /\ UNCHANGED <<builder, proc, stack, store>>

\* ------------------------------------------------------------ specifications
\* Spec: a caller that makes the builder's calls in any order, with the library
\* loads failing or not, on a single (main) process.
Init == Start /\ world_zero = TRUE

Next ==
    \/ \E b \in Baselines, fail \in 0..4 : set_baseline(b, fail)
    \/ \E src \in Sources, ok \in BOOLEAN :
          prepare_dataset(src, TestSplit, TestSplit, ok)
    \/ \E cfg \in LoraChoices : set_lora_config(cfg)
    \/ \E m \in MetricTypes, fail \in 0..2 : set_metric(m, fail)
    \/ \E a \in UserArgs : set_training_args(a)
    \/ \E st \in StepChoices : set_steps(st)
    \/ then("filter4")
    \/ \E args \in {Absent} \cup {Some(a) : a \in UserArgs} : train(args, FALSE, "ok")
    \/ TrainInstall
    \/ TrainStart
    \/ TrainLoop
    \/ TrainSave
    \/ TrainPush
    \/ TrainReturn
    \/ push_to_hub
    \/ PushEnter
    \/ PushUpload(TRUE)
    \/ PushRestore
    \/ merge_and_save
    \/ \E dest \in {Absent, Some("acme/custom")} : merge_and_push(dest)

Spec == Init /\ [][Next]_vars

\* SpecRun: a caller that sets a builder up in the order of the tests (a fresh
\* builder may replace one that has trained, as in the resume test) and then
\* trains, resumes, pushes and removes the directory in any order, on a
\* main or a secondary process, with SIGINT arriving at any point and the hub
\* failing or not.
InitRun == Start /\ world_zero \in BOOLEAN

NextRun ==
    \/ \E b \in Baselines : baseline = None /\ set_baseline(b, 0)
    \/ \E src \in Sources :
          dataset = None /\ prepare_dataset(src, TestSplit, TestSplit, TRUE)
    \/ dataset # None /\ metric_primary = None /\ set_metric("wer", 0)
    \/ \E st \in StepChoices : trainer = Unset /\ set_steps(st)
    \/ \E n \in EpochChoices : baseline = None /\ set_num_train_epochs(n)
    \/ \E resume \in BOOLEAN, dl \in {"ok", "raise", "partial"} :
          train(Absent, resume, dl)
    \/ TrainInstall
    \/ TrainStart
    \/ TrainLoop
    \/ TrainSave
    \/ TrainPush
    \/ TrainReturn
    \/ push_to_hub
    \/ PushEnter
    \/ \E ok \in BOOLEAN : PushUpload(ok)
    \/ PushRestore
    \/ Sigint
    \/ HandlerStep
    \/ RmTree
    \/ WhisperFineTuner

SpecRun == InitRun /\ [][NextRun]_vars


\* ---------------------------------------------------------- compute_metrics
\* The decoded strings, and the longest batch.
Words == {"a", "b"}
MaxRows == 3

\* A row of a table: <<i, label, pred>> in the table of incorrect predictions,
\* <<i, pred>> in the table of correct ones (the markdown around them is left out).
\* Variant: the row of the correct table appended without the else.
MarkdownTables_m(label_str, pred_str) ==
    LET n == Min(Len(label_str), Len(pred_str))
        all == [i \in 1..n |-> <<i - 1, label_str[i], pred_str[i]>>]
    IN  [mismatch |-> SelectSeq(all, LAMBDA r : r[2] # r[3]),
         match |-> [i \in 1..n |-> <<i - 1, pred_str[i]>>]]

\* lines 301-305, from index i on: enumerate(zip(label_str, pred_str)).
RECURSIVE TableRows(_, _, _, _)
TableRows(i, label_str, pred_str, tables) ==
    IF i >= Min(Len(label_str), Len(pred_str)) THEN tables
    ELSE LET label == label_str[i + 1]
             pred == pred_str[i + 1]
         IN  TableRows(i + 1, label_str, pred_str,
                 IF label # pred
                 THEN [tables EXCEPT !.mismatch = Append(@, <<i, label, pred>>)]
                 ELSE [tables EXCEPT !.match = Append(@, <<i, pred>>)])

\* lines 293-305: the two tables compute_metrics builds.
MarkdownTables(label_str, pred_str) ==
    TableRows(0, label_str, pred_str, [mismatch |-> <<>>, match |-> <<>>])

\* compute_metrics applied to a decoded batch; it touches nothing of the builder.
compute_metrics(label_str, pred_str) ==
    /\ Idle
    /\ call' = "compute_metrics"
    /\ call_args' = <<label_str, pred_str>>
    /\ ret' = MarkdownTables(label_str, pred_str)
    /\ UNCHANGED <<builder, proc, store, stack, err, trace, script>>

\* SpecTable: compute_metrics on every pair of decoded lists of equal length up
\* to MaxRows.
InitTable == Start /\ world_zero = TRUE

NextTable ==
    \E n \in 0..MaxRows :
        \E label_str \in [1..n -> Words], pred_str \in [1..n -> Words] :
            compute_metrics(label_str, pred_str)

SpecTable == InitTable /\ [][NextTable]_vars

\* SpecSplit: a caller that sets the baseline and prepares one dataset, with any
\* train split string up to MaxSplitLen characters and any short test split.
InitSplit == Start /\ world_zero = TRUE

NextSplit ==
    \/ \E b \in Baselines : baseline = None /\ set_baseline(b, 0)
    \/ \E src \in Sources, tr \in SplitStrings, ok \in BOOLEAN :
          \E te \in {t \in SplitStrings : Len(t) <= 2} :
             dataset = None /\ err = None /\ prepare_dataset(src, tr, te, ok)

SpecSplit == InitSplit /\ [][NextSplit]_vars

\* ==================================================================== claims
Events == {trace[n] : n \in DOMAIN trace}
ValueErrors == {VE_dataset, VE_baseline, VE_train, VE_name}
\* The step enters builder method `name` from the caller.
Enters(name) == stack = <<>> /\ ~exited /\ call' = name

\* C1: train raises ValueError('Please prepare or load the dataset first.') when
\* dataset is None, else ValueError('Please set the baseline first.') when the
\* feature extractor, the tokenizer or the baseline model is None; in both cases
\* no train frame is left (trainer.train is not reached) and training_args,
\* lora_config, peft_model, trainer and the SIGINT handler are as they were,
\* whether or not a training_args argument was passed.
C1_TrainFailsFast ==
    [][Enters("train") =>
          /\ (dataset = None => err' = VE_dataset)
          /\ (dataset # None /\ (feature_extractor = None \/ tokenizer = None
                                  \/ baseline_model = None)
                => err' = VE_baseline)
          /\ (dataset = None \/ feature_extractor = None \/ tokenizer = None
                  \/ baseline_model = None
                => /\ stack' = <<>>
                   /\ trace' = <<>>
                   /\ UNCHANGED <<training_args, lora_config, peft_model, trainer,
                                  trainers, sigint_handler>>)]_vars

C1_Witness ==
    /\ call = "train"
    /\ err = VE_baseline
    /\ dataset # None
    /\ tokenizer # None
    /\ baseline_model = None

\* C2: prepare_dataset called while the feature extractor or the tokenizer is
\* None raises ValueError('Please set the baseline first.'), loads no dataset and
\* leaves dataset and original_dataset as they were.
C2_PrepareNeedsBaseline ==
    [][Enters("prepare_dataset") /\ (feature_extractor = None \/ tokenizer = None)
          => /\ err' = VE_baseline
             /\ trace' = <<>>
             /\ UNCHANGED <<dataset, original_dataset>>]_vars

C2_Witness ==
    /\ call = "prepare_dataset"
    /\ err = VE_baseline
    /\ feature_extractor # None
    /\ tokenizer = None

\* C3: train called with the dataset and the baseline set but metric_primary None
\* raises a ValueError, before training_args is modified and before an adapter
\* model or a trainer is built.
C3_MetricCheckedFirst ==
    [][Enters("train") /\ dataset # None /\ feature_extractor # None
          /\ tokenizer # None /\ baseline_model # None /\ metric_primary = None
          => /\ err' \in ValueErrors
             /\ UNCHANGED <<training_args, peft_model, trainer, trainers>>]_vars

\* C4: push_to_hub called by the caller on a builder on which train was never
\* run raises ValueError('Please train the model first.') and uploads nothing.
C4_PushNeedsTrainer ==
    [][stack # <<>> /\ Top.pc = "p_enter" /\ Top.by = "caller" /\ trainer = Unset
          => err' = VE_train /\ stack' = <<>> /\ UNCHANGED <<hub, trace>>]_vars

\* C5: the train frame's resume local is true exactly when resume=True was
\* requested, the download did not raise and the output directory holds a
\* checkpoint; every failure of the resume block is printed and training starts
\* from scratch instead of ending with the failure; the value reaches
\* trainer.train as resume_from_checkpoint; resume=False attempts neither the
\* download nor the checkpoint lookup.
C5_ResumeFallsBack ==
    /\ (call = "train" /\ stack # <<>>) =>
          /\ stack[1].resume =
               (stack[1].req /\ stack[1].dl # "raised" /\ disk.ckpt # 0)
          /\ (stack[1].req /\ ~stack[1].resume => "print:Failed to resume" \in Events)
          /\ (~stack[1].req => trace = <<>>)
    /\ (call = "train" /\ dataset # None /\ baseline_model # None
          /\ metric_primary # None) => (err = None /\ stack # <<>>)
    /\ (stack # <<>> /\ stack[1].pc \in {"t_loop", "t_save", "t_push", "t_ret"}) =>
          /\ stack[1].resume
               = ("trainer.train(resume_from_checkpoint=True)" \in Events)
          /\ ~stack[1].resume
               = ("trainer.train(resume_from_checkpoint=False)" \in Events)

C5_Witness ==
    /\ stack # <<>>
    /\ stack[1].pc = "t_loop"
    /\ stack[1].req /\ stack[1].resume /\ stack[1].dl = "ok"
    /\ "snapshot_download" \in Events
    /\ "trainer.train(resume_from_checkpoint=True)" \in Events

\* C6: whenever the SIGINT handler has uploaded, it saved the model before; when
\* it has exited, it saved first, then uploaded if and only if org is set, and
\* the exit is the last thing it did.
C6_HandlerSavesUploadsExits ==
    \A n \in DOMAIN trace :
        /\ trace[n] = "upload:handler" =>
              /\ org # None
              /\ \E j \in 1..(n - 1) : trace[j] = "save:handler"
        /\ trace[n] = "exit" =>
              /\ n = Len(trace)
              /\ exited
              /\ IF org # None
                 THEN \E j \in 1..(n - 1), k \in 1..(n - 1) :
                         j < k /\ trace[j] = "save:handler" /\ trace[k] = "upload:handler"
                 ELSE \E j \in 1..(n - 1) : trace[j] = "save:handler"

C6_Witness ==
    /\ exited
    /\ org # None
    /\ Len(trace) >= 3
    /\ SubSeq(trace, Len(trace) - 2, Len(trace))
          = <<"save:handler", "upload:handler", "exit">>

HandlerEvents == {"save:handler", "upload:handler", "exit"}

\* C7: with the default training arguments, no path of train uploads when org is
\* None; with org set, a train that returns has saved and then uploaded as its
\* last two acts, every checkpoint save of the main process is followed by an
\* upload from on_save, a process that is not the main one never uploads from
\* on_save, and the SIGINT handler uploads before it exits.
C7_UploadIffOrg ==
    training_args.push_to_hub = (org # None) =>
      /\ org = None =>
            Events \cap {"upload:train", "upload:on_save", "upload:handler"} = {}
      /\ ~world_zero => "upload:on_save" \notin Events
      /\ org # None =>
            /\ (trace # <<>> /\ trace[Len(trace)] = "return") =>
                  /\ Len(trace) >= 3
                  /\ trace[Len(trace) - 1] = "upload:train"
                  /\ trace[Len(trace) - 2] = "save:train"
            /\ \A n \in 1..(Len(trace) - 1) :
                  (world_zero /\ trace[n] = "checkpoint"
                     /\ trace[n + 1] \notin HandlerEvents)
                    => trace[n + 1] = "upload:on_save"
            /\ "exit" \in Events => "upload:handler" \in Events

C7_Witness ==
    /\ org # None
    /\ world_zero
    /\ training_args.push_to_hub
    /\ Len(trace) >= 5
    /\ trace[Len(trace)] = "return"
    /\ trace[Len(trace) - 1] = "upload:train"
    /\ \E n \in 1..(Len(trace) - 1) :
          trace[n] = "checkpoint" /\ trace[n + 1] = "upload:on_save"

\* C8: the chain of the test (set_baseline, prepare_dataset, then, set_metric,
\* set_lora_config(), train, merge_and_save) runs without raising, and when it is
\* through the output directory holds the merged weights and the model config.
C8_ChainRuns ==
    script.t = "wft" =>
      /\ err = None
      /\ script.pos = Len(WftScript) =>
            {"model.safetensors", "config.json"} \subseteq outdir

\* C9: in the resume test (empty directory, a run with num_train_epochs 3, then
\* a run with num_train_epochs 6, both with resume=True) no call raises, and the
\* final checkpoint of the second run has a strictly larger global step than the
\* final checkpoint of the first.
C9_SecondRunTrainsFurther ==
    script.t = "resume" =>
      /\ err = None
      /\ script.pos = Len(ResumeScript) => disk.ckpt > script.first

\* C10: while push_to_hub uploads, no log entry holds 'eval_pred',
\* 'decode_runtime' or a '<metric>_runtime' key, and when push_to_hub returns
\* the log history is what it was when the call began.
C10_LogHistoryRestored ==
    [][/\ (stack' # <<>> /\ stack'[Len(stack')].pc = "p_upload") =>
             \A n \in DOMAIN trainers'[trainer'[1]].log_history :
                 DOMAIN trainers'[trainer'[1]].log_history[n]
                   \cap {"eval_pred", "decode_runtime",
                         RuntimeKey("wer"), RuntimeKey("cer")} = {}
       /\ (stack # <<>> /\ Top.pc = "p_restore" /\ stack' = Below) =>
             trainers'[trainer[1]].log_history = Top.before]_vars

\* The builder methods whose call is one step of the model.
OneStepMethods == {"set_baseline", "prepare_dataset", "set_lora_config",
                   "set_metric", "set_training_args", "set_steps",
                   "merge_and_save", "merge_and_push", "then"}

\* C11: every call of set_baseline, prepare_dataset, set_lora_config,
\* set_metric, set_training_args, set_steps, merge_and_save, merge_and_push or
\* then that completes without raising returns the instance it was called on,
\* and so does a train that returns; then(func) calls func once, whatever func
\* does, and func's result is not what then returns.
C11_MethodsReturnSelf ==
    [][/\ (Enters(call') /\ call' \in OneStepMethods /\ err' = None) => ret' = Self
       /\ (stack # <<>> /\ Top.pc = "t_ret" /\ stack' = <<>> /\ err' = None)
             => ret' = Self
       /\ Enters("then") =>
             /\ trace' = <<"func">>
             /\ ret' # Self => err' # None]_vars

C11_Witness ==
    /\ call = "then"
    /\ err = None
    /\ ret = Self
    /\ trace = <<"func">>
    /\ dataset \notin Sources \cup {None}

\* What merge_and_push sends to destination `name`, in order.
PushesTo(name) == MergedUploads(name) \o <<"upload_file:" \o name>>

\* C12: merge_and_push without a dest_name pushes to '<hub_model_id>-merged'
\* ('<org>/<id>-merged' while hub_model_id is the one __init__ set); without a
\* dest_name and with hub_model_id None it raises ValueError('Please set the
\* model name to push the model.') having merged and uploaded nothing; with a
\* dest_name every upload goes to exactly that name.
C12_MergedDestination ==
    [][Enters("merge_and_push") =>
          LET dest == call_args'[1]
              id == training_args.hub_model_id
              sent(name) == \E n \in 0..Len(PushesTo(name)) :
                               trace' = SubSeq(PushesTo(name), 1, n)
          IN  /\ (dest = Absent /\ id = None) => (err' = VE_name /\ trace' = <<>>)
              /\ (dest = Absent /\ id # None) =>
                    /\ err' # VE_name
                    /\ sent(id \o "-merged")
                    /\ (org = "acme" /\ id = HubModelId(org)) => sent("acme/m-merged")
              /\ dest # Absent => (err' # VE_name /\ sent(dest[1]))
              /\ err' = None => trace' # <<>>]_vars

C12_Witness ==
    /\ call = "merge_and_push"
    /\ call_args = <<Absent>>
    /\ err = None
    /\ trace = PushesTo("acme/m-merged")

\* The positions of "+" in a split string, the cuts after which a name starts,
\* the k-th cut, and the name that runs from a cut to the next "+" or the end.
PlusAt(s) == {i \in DOMAIN s : s[i] = "+"}
Cuts(s) == {0} \cup PlusAt(s)
KthCut(s, k) == CHOOSE c \in Cuts(s) : Cardinality({d \in Cuts(s) : d < c}) = k - 1
NameAfter(s, c) ==
    LET ends == {j \in PlusAt(s) \cup {Len(s) + 1} : j > c}
        e == CHOOSE j \in ends : \A k \in ends : j <= k
    IN  SubSeq(s, c + 1, e - 1)

\* C13: a prepare_dataset that completes has passed the test split string whole
\* to one non-streaming load, after the train loads; a train split without "+"
\* went whole to one streaming load; a train split with "+" gave one streaming
\* load per "+"-separated name, in order, each name unchanged, followed by one
\* interleave.  When the source fails, only the first of these loads was made.
C13_SplitsVerbatim ==
    [][(Enters("prepare_dataset") /\ err' \in {None, LibraryError}) =>
          LET tr == call_args'[1]
              te == call_args'[2]
              n == Cardinality(PlusAt(tr))
              expected ==
                  IF n = 0
                  THEN <<StreamingLoad(tr), PlainLoad(te)>>
                  ELSE [k \in 1..(n + 3) |->
                          IF k <= n + 1 THEN StreamingLoad(NameAfter(tr, KthCut(tr, k)))
                          ELSE IF k = n + 2 THEN "interleave_datasets"
                          ELSE PlainLoad(te)]
          IN  IF err' = None THEN trace' = expected
              ELSE trace' = <<expected[1]>>]_vars

C13_Witness ==
    /\ call = "prepare_dataset"
    /\ err = None
    /\ call_args = <<<<":", "+", "v">>, <<"v", "+">>>>
    /\ trace = <<"load_dataset(streaming=True)::", "load_dataset(streaming=True):v",
                 "interleave_datasets", "load_dataset:v+">>

\* C14: for decoded lists of equal length n, every index i in 0..n-1 has exactly
\* one row, in the table of incorrect predictions when label i differs from
\* prediction i and in the table of correct predictions otherwise; the rows of
\* each table are in increasing i and the two tables hold n rows together.
C14_OneRowPerIndex ==
    call = "compute_metrics" =>
      LET label_str == call_args[1]
          pred_str == call_args[2]
          n == Len(label_str)
          bad == ret.mismatch
          good == ret.match
          rowsOf(t, i) == {k \in DOMAIN t : t[k][1] = i}
      IN  /\ Len(bad) + Len(good) = n
          /\ \A i \in 0..(n - 1) :
                IF label_str[i + 1] # pred_str[i + 1]
                THEN /\ Cardinality(rowsOf(bad, i)) = 1
                     /\ rowsOf(good, i) = {}
                     /\ \A k \in rowsOf(bad, i) :
                           bad[k] = <<i, label_str[i + 1], pred_str[i + 1]>>
                ELSE /\ Cardinality(rowsOf(good, i)) = 1
                     /\ rowsOf(bad, i) = {}
                     /\ \A k \in rowsOf(good, i) : good[k] = <<i, pred_str[i + 1]>>
          /\ \A j, k \in DOMAIN bad : j < k => bad[j][1] < bad[k][1]
          /\ \A j, k \in DOMAIN good : j < k => good[j][1] < good[k][1]

C14_Witness ==
    /\ call = "compute_metrics"
    /\ call_args = <<<<"a", "b", "a">>, <<"a", "a", "b">>>>
    /\ ret = [mismatch |-> <<<<1, "b", "a">>, <<2, "a", "b">>>>,
              match |-> <<<<0, "a">>>>]

\* C15 as stated: the two metrics are never the same.
C15_MetricsNeverSame ==
    metric_primary # None => metric_primary # metric_secondary

TrainPcs == {"t_install", "t_start", "t_loop", "t_save", "t_push", "t_ret"}

\* C15: a set_metric(m) that returns leaves m as the primary metric and the
\* other member of {'wer', 'cer'} as the secondary one, so that the two differ;
\* every train call that gets past its checks sets metric_for_best_model to the
\* primary metric's name and greater_is_better to False, whatever the training
\* arguments of the caller said, and both stay so while that train runs.
C15_MetricsAfterSetMetric ==
    [][/\ (Enters("set_metric") /\ err' = None) =>
             /\ metric_primary' = call_args'[1]
             /\ metric_secondary' \in {"wer", "cer"} \ {call_args'[1]}
             /\ metric_primary' # metric_secondary'
       /\ (Enters("train") /\ stack' # <<>>) =>
             /\ training_args'.metric_for_best_model = metric_primary
             /\ training_args'.greater_is_better = FALSE
       /\ (stack # <<>> /\ stack[1].pc \in TrainPcs) =>
             /\ training_args'.metric_for_best_model = metric_primary
             /\ training_args'.greater_is_better = FALSE]_vars

C15_Witness ==
    /\ call = "train"
    /\ call_args[1] # Absent
    /\ call_args[1][1].greater_is_better = TRUE
    /\ stack # <<>>
    /\ metric_primary = "cer"
    /\ metric_secondary = "wer"
    /\ training_args.metric_for_best_model = "cer"
    /\ training_args.greater_is_better = FALSE

\* C16 as stated: a dataset implies the whole baseline, the processor and the
\* baseline model included.
C16_DatasetImpliesBaseline ==
    dataset # None =>
      /\ baseline # None
      /\ feature_extractor # None
      /\ tokenizer # None
      /\ processor # None
      /\ baseline_model # None

\* C16: in every state the builder's methods reach, in any order and with any
\* of them failing, a dataset implies that baseline, feature extractor and
\* tokenizer are set, so that once train's dataset check passes the check of
\* line 254 cannot fail (the check of line 256 can: the processor and the
\* baseline model may still be None).
C16_DatasetImpliesExtractor ==
    dataset # None =>
      /\ baseline # None
      /\ feature_extractor # None
      /\ tokenizer # None
      /\ (call = "train" /\ err = VE_baseline) => baseline_model = None

C16_Witness ==
    /\ dataset # None
    /\ feature_extractor # None
    /\ tokenizer # None
    /\ processor = None
    /\ baseline_model = None
    /\ call = "train"
    /\ err = VE_baseline

\* The positions of a train call after line 385.
AfterInstall == {"t_start", "t_loop", "t_save", "t_push", "t_ret"}

\* C17: the SIGINT handler is installed before the framework's training starts,
\* and only line 385 of a train call ever changes it, to the handler of that
\* call's own trainer, so it is never uninstalled or restored and train's return
\* leaves it in place, bound to the trainer of the call that returned, the last
\* trainer built.  A SIGINT delivered while a handler is
\* installed runs that handler with its trainer; the handler saves first, and
\* when it exits it has saved, then uploaded if and only if org is set.
C17_HandlerStaysInstalled ==
    [][/\ (stack' # <<>> /\ stack'[1].pc \in AfterInstall)
             => sigint_handler' = stack'[1].tr
       /\ sigint_handler' # sigint_handler
             => /\ stack # <<>> /\ Top.pc = "t_install"
                /\ sigint_handler' = Top.tr
                /\ sigint_handler' = Len(trainers)
       /\ (stack # <<>> /\ Top.pc = "t_ret" /\ stack' = <<>>)
             => /\ sigint_handler' = Top.tr
                /\ Top.tr = Len(trainers)
       /\ (sigints' # sigints /\ sigint_handler # 0)
             => /\ Len(stack') = Len(stack) + 1
                /\ stack'[Len(stack')].pc = "handler"
                /\ stack'[Len(stack')].tr = sigint_handler
                /\ stack'[Len(stack')].i = 1
                /\ err' = err
       /\ (stack # <<>> /\ Top.pc = "handler" /\ Top.i = 1 /\ sigints' = sigints)
             => /\ trace' = Append(trace, "save:handler")
                /\ Top.tr = sigint_handler
       /\ (exited' /\ ~exited)
             => LET n == Len(trace')
                IN  /\ trace'[n] = "exit"
                    /\ IF org # None
                       THEN /\ n >= 3
                            /\ trace'[n - 1] = "upload:handler"
                            /\ trace'[n - 2] = "save:handler"
                       ELSE /\ n >= 2
                            /\ trace'[n - 1] = "save:handler"]_vars

\* A second train call has returned, and a SIGINT delivered afterwards has run
\* the handler of that call's trainer through save, upload and exit.
C17_Witness ==
    /\ exited
    /\ org # None
    /\ sigint_handler = 2
    /\ Len(trainers) = 2
    /\ Len(trace) >= 4
    /\ SubSeq(trace, Len(trace) - 3, Len(trace))
          = <<"return", "save:handler", "upload:handler", "exit">>

====
